---- MODULE Spec2Model ----
(***************************************************************************)
(* A model of the z-color-picker widget (ZColorPicker.tsx) and of its      *)
(* colour utilities (utils/colors.ts, utils/math.ts).                      *)
(*                                                                         *)
(* Number representation.  The source computes in IEEE doubles; the model  *)
(* computes in exact arithmetic over the integers:                         *)
(*   - a fraction (s, v, a, a channel /255) is a pair <<n, d>> in lowest   *)
(*     terms with d > 0;                                                   *)
(*   - a hue is an integer number of hundredths of a degree (HueUnit per   *)
(*     degree), so the integer hue 15 of rgbToHsv is 1500;                 *)
(*   - an angle returned by Math.atan2 is an integer number of hundredths  *)
(*     of a degree in (-18000, 18000], so pi is 18000 and rad*180/pi is    *)
(*     the division of that number by HueUnit;                             *)
(*   - a distance is held as its exact square in pixels^2; its quotient by *)
(*     a radius takes its length in 1/200 pixel, rounded down.             *)
(* Math.round(x) is floor(x + 1/2), as ECMAScript defines it.              *)
(***************************************************************************)
EXTENDS Integers, Sequences, FiniteSets, TLC

---------------------------------------------------------------------------
(* Arithmetic helpers                                                      *)

Abs(x) == IF x < 0 THEN -x ELSE x

Min2(a, b) == IF a <= b THEN a ELSE b

Max2(a, b) == IF a >= b THEN a ELSE b

RECURSIVE GCD(_, _)
GCD(a, b) == IF b = 0 THEN Abs(a) ELSE GCD(b, a % b)

\* The fraction n/d in lowest terms, d > 0.
Rat(n, d) ==
  LET g == GCD(Abs(n), Abs(d))
      sg == IF d < 0 THEN -1 ELSE 1
  IN  IF g = 0 THEN <<0, 1>> ELSE <<sg * (n \div g), sg * (d \div g)>>

RatLt(p, q) == p[1] * q[2] < q[1] * p[2]

RatLe(p, q) == p[1] * q[2] <= q[1] * p[2]

Zero == <<0, 1>>

One == <<1, 1>>

\* The JavaScript remainder a % b for b > 0: the sign of the dividend.
JsRem(a, b) == IF a >= 0 THEN a % b ELSE -((-a) % b)

\* Math.round(n/d) for d > 0: floor(n/d + 1/2).
RoundDiv(n, d) == (2 * n + d) \div (2 * d)

\* <<q, r>> with a*b = q*c + r and 0 <= r < c, for a >= 0 and c > 0, computed
\* bit by bit so that no intermediate product leaves the 32-bit range.
RECURSIVE MulDivMod(_, _, _)
MulDivMod(a, b, c) ==
  IF a = 0 THEN <<0, 0>>
  ELSE LET h == MulDivMod(a \div 2, b, c)
           t == 2 * h[2] + (a % 2) * b
       IN  <<2 * h[1] + (t \div c), t % c>>

\* floor(a*b/c), directly when the product stays in the 32-bit range
MulDivFloor(a, b, c) ==
  IF b = 0 \/ a <= 2147483647 \div Abs(b)
  THEN (a * b) \div c
  ELSE MulDivMod(a, b, c)[1]

\* floor(sqrt(n)) for n >= 0, by bisection on [lo, hi).
RECURSIVE SqrtIn(_, _, _)
SqrtIn(n, lo, hi) ==
  IF hi - lo <= 1 THEN lo
  ELSE LET mid == (lo + hi) \div 2
       IN  IF mid * mid <= n THEN SqrtIn(n, mid, hi) ELSE SqrtIn(n, lo, mid)

ISqrt(n) == SqrtIn(n, 0, 46341)

---------------------------------------------------------------------------
(* Math.atan2                                                              *)

\* Hundredths of a degree per degree: the unit of hues and angles.
HueUnit == 100

\* Radians are summed in units of 1/RadUnit.
RadUnit == 40000

\* sum over j >= k of (-1)^j t^(2j+1)/(2j+1), given pw = t^(2k+1) and
\* t2 = t^2, all in units of 1/RadUnit; the terms below one unit are dropped.
RECURSIVE AtanSeries(_, _, _)
AtanSeries(pw, t2, k) ==
  IF pw \div (2 * k + 1) = 0 THEN 0
  ELSE (pw \div (2 * k + 1)) - AtanSeries((pw * t2) \div RadUnit, t2, k + 1)

\* atan(t) for t = tt/RadUnit in [0, 1/2], in hundredths of a degree
\* (18000/(pi*RadUnit) = 0.14324), rounded to the nearest.
AtanSmall(tt) ==
  (AtanSeries(tt, (tt * tt) \div RadUnit, 0) * 14324 + 50000) \div 100000

\* atan(p/q) for 0 <= p <= q, q > 0, in hundredths of a degree; for
\* p/q > 1/2 by atan(t) = 45 - atan((1-t)/(1+t)).  The result is within one
\* hundredth of a degree of the angle, and exact on the axes and diagonals.
AtanFrac(p, q) ==
  IF 2 * p <= q THEN AtanSmall((RadUnit * p) \div q)
  ELSE 45 * HueUnit - AtanSmall((RadUnit * (q - p)) \div (q + p))

\* Math.atan2(dy, dx) in hundredths of a degree, in (-18000, 18000];
\* Math.atan2(0, 0) is 0.
Atan2(dy, dx) ==
  LET ax == Abs(dx)
      ay == Abs(dy)
      th == IF ax = 0 /\ ay = 0 THEN 0
            ELSE IF ay <= ax THEN AtanFrac(ay, ax)
            ELSE 90 * HueUnit - AtanFrac(ax, ay)
  IN  IF dx >= 0 THEN (IF dy >= 0 THEN th ELSE -th)
      ELSE (IF dy >= 0 THEN 180 * HueUnit - th ELSE th - 180 * HueUnit)

---------------------------------------------------------------------------
(* utils/math.ts                                                           *)

\* getDistance: the distance between two points with integer coordinates,
\* held as its square (exact).
getDistance(x1, y1, x2, y2) ==
  (x2 - x1) * (x2 - x1) + (y2 - y1) * (y2 - y1)

\* getAngle: Math.atan2(y - cy, x - cx).
getAngle(x, y, cx, cy) == Atan2(y - cy, x - cx)

\* A radToDeg without the "+ 360": (rad * 180) / Math.PI % 360, which keeps
\* the sign of a negative angle.
radToDegSigned(rad) == JsRem(rad, 360 * HueUnit)

\* radToDeg: ((rad * 180) / Math.PI + 360) % 360, on an angle given in
\* hundredths of a degree; % is the JavaScript remainder.
radToDeg(rad) == JsRem(rad + 360 * HueUnit, 360 * HueUnit)

---------------------------------------------------------------------------
(* utils/colors.ts                                                         *)

\* Math.round(255 * v * w) for fractions v >= 0 and w.
Round255(v, w) == (MulDivFloor(510 * v[1], w[1], w[2]) + v[2]) \div (2 * v[2])

\* hsvToRgb(h, s, v): h in hundredths of a degree, s and v fractions.
\* With f = 1 - |hh % 2 - 1|, c = v*s, x = c*f and m = v - c, the three
\* channel values are c + m = v, x + m = v*(1 - s*(1 - f)) and m = v*(1 - s).
hsvToRgb(h, s, v) ==
  LET hm == JsRem(h, 120 * HueUnit)
      f  == Rat(60 * HueUnit - Abs(hm - 60 * HueUnit), 60 * HueUnit)
      wc == One
      wx == Rat(s[2] * f[2] - s[1] * (f[2] - f[1]), s[2] * f[2])
      w0 == Rat(s[2] - s[1], s[2])
      C  == Round255(v, wc)
      X  == Round255(v, wx)
      M  == Round255(v, w0)
  IN  IF h >= 0 /\ h < 60 * HueUnit THEN [r |-> C, g |-> X, b |-> M]
      ELSE IF h < 120 * HueUnit THEN [r |-> X, g |-> C, b |-> M]
      ELSE IF h < 180 * HueUnit THEN [r |-> M, g |-> C, b |-> X]
      ELSE IF h < 240 * HueUnit THEN [r |-> M, g |-> X, b |-> C]
      ELSE IF h < 300 * HueUnit THEN [r |-> X, g |-> M, b |-> C]
      ELSE [r |-> C, g |-> M, b |-> X]

Max3(a, b, c) == Max2(a, Max2(b, c))

Min3(a, b, c) == Min2(a, Min2(b, c))

\* The hue of rgbToHsv in whole degrees: Math.round(h * 60), plus 360 when
\* negative.  Dividing the channels by 255 changes none of the ratios.
HsvHueDeg(r, g, b) ==
  LET max  == Max3(r, g, b)
      min  == Min3(r, g, b)
      diff == max - min
      \* h * 60 as the fraction n/diff
      n    == IF max = r THEN 60 * (g - b)
              ELSE IF max = g THEN 60 * (b - r) + 120 * diff
              ELSE 60 * (r - g) + 240 * diff
      h    == IF diff = 0 THEN 0 ELSE RoundDiv(n, diff)
  IN  IF h < 0 THEN h + 360 ELSE h

\* An rgbToHsv that skips the division of the channels by 255: v is max on
\* the 0..255 scale.
rgbToHsvUnscaled(r, g, b) ==
  LET max == Max3(r, g, b)
      min == Min3(r, g, b)
  IN  [h |-> HsvHueDeg(r, g, b) * HueUnit,
       s |-> IF max = 0 THEN Zero ELSE Rat(max - min, max),
       v |-> Rat(max, 1)]

\* rgbToHsv(r, g, b) for integer channels.
rgbToHsv(r, g, b) ==
  LET max == Max3(r, g, b)
      min == Min3(r, g, b)
  IN  [h |-> HsvHueDeg(r, g, b) * HueUnit,
       s |-> IF max = 0 THEN Zero ELSE Rat(max - min, max),
       v |-> Rat(max, 255)]

HexDigits == <<"0", "1", "2", "3", "4", "5", "6", "7",
               "8", "9", "a", "b", "c", "d", "e", "f">>

\* c.toString(16) as a sequence of characters, for an integer c >= 0.
RECURSIVE ToString16(_)
ToString16(c) ==
  IF c < 16 THEN <<HexDigits[c + 1]>>
  ELSE Append(ToString16(c \div 16), HexDigits[(c % 16) + 1])

\* A toHex without the zero padding: c.toString(16).
toHexUnpadded(c) == ToString16(c)

\* `0${c.toString(16)}`.slice(-2)
toHex(c) ==
  LET t == <<"0">> \o ToString16(c)
  IN  SubSeq(t, Len(t) - 1, Len(t))

\* rgbToHex(r, g, b): the string as its sequence of characters.
rgbToHex(r, g, b) == <<"#">> \o toHex(r) \o toHex(g) \o toHex(b)

\* rgbToHsl(r, g, b) for integer channels; h, s and l are Math.round results.
rgbToHsl(r, g, b) ==
  LET max == Max3(r, g, b)
      min == Min3(r, g, b)
      d   == max - min
      \* l > 0.5 is max + min > 255
      sd  == IF max + min > 255 THEN 510 - max - min ELSE max + min
      \* h * 6 as the fraction n/d
      n   == IF max = r THEN (g - b) + (IF g < b THEN 6 * d ELSE 0)
             ELSE IF max = g THEN (b - r) + 2 * d
             ELSE (r - g) + 4 * d
  IN  [h |-> IF d = 0 THEN 0 ELSE RoundDiv(60 * n, d),
       s |-> IF d = 0 THEN 0 ELSE RoundDiv(100 * d, sd),
       l |-> RoundDiv(100 * (max + min), 510)]

\* The value of a hexadecimal digit, upper or lower case.
HexVal(ch) ==
  CASE ch = "0" -> 0 [] ch = "1" -> 1 [] ch = "2" -> 2 [] ch = "3" -> 3
    [] ch = "4" -> 4 [] ch = "5" -> 5 [] ch = "6" -> 6 [] ch = "7" -> 7
    [] ch = "8" -> 8 [] ch = "9" -> 9
    [] ch \in {"a", "A"} -> 10 [] ch \in {"b", "B"} -> 11
    [] ch \in {"c", "C"} -> 12 [] ch \in {"d", "D"} -> 13
    [] ch \in {"e", "E"} -> 14 [] ch \in {"f", "F"} -> 15

\* parseInt(hex.slice(from, from + 2), 16) for a string of hex digits
\* (from counts characters from 0, as slice does).
parseInt16(hex, from) == 16 * HexVal(hex[from + 1]) + HexVal(hex[from + 2])

---------------------------------------------------------------------------
(* constants/index.ts                                                      *)

\* DEFAULT_COLOR_PALETTE, each string as its sequence of characters.
DEFAULT_COLOR_PALETTE ==
  << <<"#", "0", "0", "0", "0", "0", "0">>,
     <<"#", "F", "F", "F", "F", "F", "F">>,
     <<"#", "F", "F", "0", "0", "0", "0">>,
     <<"#", "F", "F", "8", "0", "0", "0">>,
     <<"#", "F", "F", "F", "F", "0", "0">>,
     <<"#", "8", "0", "F", "F", "0", "0">>,
     <<"#", "0", "0", "F", "F", "0", "0">>,
     <<"#", "0", "0", "F", "F", "F", "F">>,
     <<"#", "0", "0", "8", "0", "F", "F">>,
     <<"#", "0", "0", "0", "0", "F", "F">>,
     <<"#", "8", "0", "0", "0", "F", "F">>,
     <<"#", "F", "F", "0", "0", "F", "F">>,
     <<"#", "F", "F", "0", "0", "8", "0">>,
     <<"#", "8", "0", "8", "0", "8", "0">> >>

\* LAYOUT_CONSTANTS.DEFAULT_SIZE
DEFAULT_SIZE == 300

\* LAYOUT_CONSTANTS.WHEEL_RADIUS_RATIO, 0.35, as a fraction
WHEEL_RADIUS_RATIO == <<7, 20>>

\* LAYOUT_CONSTANTS.ALPHA_INNER_RADIUS_OFFSET
ALPHA_INNER_RADIUS_OFFSET == 15

\* LAYOUT_CONSTANTS.ALPHA_OUTER_RADIUS_OFFSET
ALPHA_OUTER_RADIUS_OFFSET == 10

-------------------------------------------------------------------------------------------------------------------------------------------------
(* Bounds of the model: the inputs the environment draws from              *)

\* The sizes the size prop takes (even, so that the centre is a pixel).
\* Size 300: wheel radius 105, ring 120..140.  Size 180: wheel radius 63,
\* ring 78..80.
Sizes == {180, DEFAULT_SIZE}

\* The initialColor prop: the default and the documented example.
InitialColors ==
  { [r |-> 255, g |-> 0, b |-> 0, a |-> One],
    [r |-> 255, g |-> 100, b |-> 50, a |-> <<4, 5>>] }

\* The values of the formats prop; <<>> stands for an absent or empty list.
FormatChoices == { <<>>, <<"hex">>, <<"rgba", "hsv">> }

\* Pointer positions of the widget specification, as offsets <<dx, dy>>
\* from the centre of the canvas (y grows downwards).
\*   <<0, -79>>:  inside the wheel for size 300, on the ring for 180
\*   <<0, -110>>: in the gap for size 300, outside the ring for 180
\*   <<0, -138>>: on the ring for size 300, outside the ring for 180
\* (all straight above the centre: Math.atan2 is negative there).
Offsets == { <<0, -79>>, <<0, -110>>, <<0, -138>> }

\* The number of preset rings shown (a prefix of DEFAULT_COLOR_PALETTE).
PaletteLen == 3

\* The brightness slider has min 0, max 1, step 0.01; the model moves it in
\* steps of 1/BrightnessSteps.
BrightnessSteps == 1

BrightnessValues == { Rat(k, BrightnessSteps) : k \in 0..BrightnessSteps }

\* The pixels the screen-capture eyedropper reads (imageData.data).
Samples == { <<255, 2, 0>>, <<255, 0, 128>> }

\* The same colours as the strings the native EyeDropper (sRGBHex) and the
\* colour input (value) deliver.
HexSamples ==
  { <<"#", "f", "f", "0", "2", "0", "0">>,
    <<"#", "f", "f", "0", "0", "8", "0">> }

FormatNames == {"rgba", "rgb", "hex", "hsl", "hsla", "hsv", "hsva"}

---------------------------------------------------------------------------
(* components/ZColorPicker.tsx: state                                      *)

VARIABLES
  color,        \* useState: the HSVA source of truth [h, s, v, a]
  isDragging,   \* useState
  dragTarget,   \* useState: "null", "color" or "alpha"
  size,         \* prop
  formats,      \* prop: a sequence of format names
  hasEyeDropper,\* "EyeDropper" in window
  eye,          \* the eyedropper session: its stage and the values its
                \* closure captured at the click, [stage, a, formats]
  pointer,      \* the pointer specification: the position <<x, y>> of
                \* the pointer event handled last; <<>> after any other
                \* handler, and in the widget
  selecting,    \* whether the handler that ran last handled a
                \* colour-selection event
  changed,      \* whether the handler that ran last changed color
  lastEmit,     \* the onChange calls that handler made, in order, each as
                \* [formats, color]: the formats and the colour
                \* triggerOnChange ran with, which fix the argument
                \* passed, onChangeArg(color, formats)
  io            \* the converter specification: the values a conversion
                \* chain has produced so far; <<>> in the widget

vars == <<color, isDragging, dragTarget, size, formats, hasEyeDropper, eye,
          pointer, selecting, changed, lastEmit, io>>

\* The memoized layout values for a size; radii are fractions of a pixel.
centerOf(sz) == sz \div 2

wheelRadiusOf(sz) == Rat(sz * WHEEL_RADIUS_RATIO[1], WHEEL_RADIUS_RATIO[2])

\* An alphaInnerRadius without the ALPHA_INNER_RADIUS_OFFSET: the ring
\* starts at the wheel's edge.
alphaInnerRadiusNoOffset(sz) ==
  Rat(sz * WHEEL_RADIUS_RATIO[1], WHEEL_RADIUS_RATIO[2])

alphaInnerRadiusOf(sz) ==
  Rat(sz * WHEEL_RADIUS_RATIO[1] + ALPHA_INNER_RADIUS_OFFSET * WHEEL_RADIUS_RATIO[2],
      WHEEL_RADIUS_RATIO[2])

alphaOuterRadiusOf(sz) == Rat(sz - 2 * ALPHA_OUTER_RADIUS_OFFSET, 2)

centerX == centerOf(size)

centerY == centerOf(size)

wheelRadius == wheelRadiusOf(size)

alphaInnerRadius == alphaInnerRadiusOf(size)

alphaOuterRadius == alphaOuterRadiusOf(size)

\* distance <= radius, on the exact squares.
DistLe(d, rad) == d * rad[2] * rad[2] <= rad[1] * rad[1]

\* distance >= radius, on the exact squares.
DistGe(d, rad) == d * rad[2] * rad[2] >= rad[1] * rad[1]

\* distance / radius, for a distance held as its square: the length is
\* taken in 1/200 pixel, rounded down.
DistOver(d, rad) == Rat(ISqrt(40000 * d) * rad[2], 200 * rad[1])

RatMin(p, q) == IF RatLe(p, q) THEN p ELSE q

RatMax(p, q) == IF RatLe(p, q) THEN q ELSE p

---------------------------------------------------------------------------
(* triggerOnChange                                                         *)

\* Math.round(p * 100) for a fraction p
RoundPct(p) == RoundDiv(100 * p[1], p[2])

\* formatResults[f]: the representation of newColor in format f.
\* Math.round(newColor.h) is the hue in hundredths of a degree divided by
\* HueUnit and rounded.
formatResults(newColor, f) ==
  LET rgb == hsvToRgb(newColor.h, newColor.s, newColor.v)
      hsl == rgbToHsl(rgb.r, rgb.g, rgb.b)
  IN  CASE f = "rgba" -> [r |-> rgb.r, g |-> rgb.g, b |-> rgb.b,
                          a |-> newColor.a]
        [] f = "rgb"  -> rgb
        [] f = "hex"  -> rgbToHex(rgb.r, rgb.g, rgb.b)
        [] f = "hsl"  -> hsl
        [] f = "hsla" -> [h |-> hsl.h, s |-> hsl.s, l |-> hsl.l,
                          a |-> newColor.a]
        [] f = "hsv"  -> [h |-> RoundDiv(newColor.h, HueUnit),
                          s |-> RoundPct(newColor.s),
                          v |-> RoundPct(newColor.v)]
        [] f = "hsva" -> [h |-> RoundDiv(newColor.h, HueUnit),
                          s |-> RoundPct(newColor.s),
                          v |-> RoundPct(newColor.v),
                          a |-> newColor.a]

\* Object.keys of a representation; a string (hex) has no keys.
KeysOf(format) ==
  CASE format = "rgba" -> {"r", "g", "b", "a"}
    [] format = "rgb"  -> {"r", "g", "b"}
    [] format = "hex"  -> {}
    [] format = "hsl"  -> {"h", "s", "l"}
    [] format = "hsla" -> {"h", "s", "l", "a"}
    [] format = "hsv"  -> {"h", "s", "v"}
    [] format = "hsva" -> {"h", "s", "v", "a"}

\* An onChangeArg whose forEach stops before the last requested format.
onChangeArgShort(newColor, fmts) ==
  IF Len(fmts) = 0
  THEN LET rgb == hsvToRgb(newColor.h, newColor.s, newColor.v)
       IN  [keys |-> {"h", "s", "v", "a", "r", "g", "b"},
            val  |-> [h |-> newColor.h, s |-> newColor.s, v |-> newColor.v,
                      a |-> newColor.a, r |-> rgb.r, g |-> rgb.g,
                      b |-> rgb.b]]
  ELSE IF Len(fmts) = 1
  THEN [keys |-> KeysOf(fmts[1]), val |-> formatResults(newColor, fmts[1])]
  ELSE LET ks == {fmts[i] : i \in 1..(Len(fmts) - 1)}
       IN  [keys |-> ks, val |-> [k \in ks |-> formatResults(newColor, k)]]

\* An onChangeArg whose default passes the stored state alone, without
\* r, g and b.
onChangeArgBare(newColor, fmts) ==
  IF Len(fmts) = 0
  THEN [keys |-> {"h", "s", "v", "a"},
        val  |-> [h |-> newColor.h, s |-> newColor.s, v |-> newColor.v,
                  a |-> newColor.a]]
  ELSE IF Len(fmts) = 1
  THEN [keys |-> KeysOf(fmts[1]), val |-> formatResults(newColor, fmts[1])]
  ELSE LET ks == {fmts[i] : i \in 1..Len(fmts)}
       IN  [keys |-> ks, val |-> [k \in ks |-> formatResults(newColor, k)]]

\* The argument triggerOnChange passes to onChange, for the formats fmts of
\* its closure: [keys |-> the keys of the object passed (none for a string),
\* val |-> the value].
\*   no formats: { ...newColor, r, g, b }
\*   one format: formatResults[format]
\*   more:       the object built by formats.forEach.
onChangeArg(newColor, fmts) ==
  IF Len(fmts) = 0
  THEN LET rgb == hsvToRgb(newColor.h, newColor.s, newColor.v)
       IN  [keys |-> {"h", "s", "v", "a", "r", "g", "b"},
            val  |-> [h |-> newColor.h, s |-> newColor.s, v |-> newColor.v,
                      a |-> newColor.a, r |-> rgb.r, g |-> rgb.g,
                      b |-> rgb.b]]
  ELSE IF Len(fmts) = 1
  THEN [keys |-> KeysOf(fmts[1]), val |-> formatResults(newColor, fmts[1])]
  ELSE LET ks == {fmts[i] : i \in 1..Len(fmts)}
       IN  [keys |-> ks, val |-> [k \in ks |-> formatResults(newColor, k)]]

\* A triggerOnChange that stays silent when the colour it is given is the
\* colour already stored.
triggerOnChangeDistinct(newColor, fmts) ==
  IF newColor = color
  THEN <<>>
  ELSE << [formats |-> fmts, color |-> newColor] >>

\* The onChange calls of triggerOnChange(newColor) in a closure holding
\* fmts: one call (the onChange prop is taken to be given), recorded by the
\* formats and the colour it converts; the argument it passes is
\* onChangeArg(newColor, fmts).
triggerOnChange(newColor, fmts) ==
  << [formats |-> fmts, color |-> newColor] >>

\* A handler ending that stores newColor but hands triggerOnChange the
\* colour of the previous render.
SetAndTriggerStale(newColor, fmts) ==
  /\ color' = newColor
  /\ changed' = (newColor # color)
  /\ lastEmit' = triggerOnChange(color, fmts)

\* setColor(newColor); triggerOnChange(newColor), as every selection
\* handler ends.
SetAndTrigger(newColor, fmts) ==
  /\ color' = newColor
  /\ changed' = (newColor # color)
  /\ lastEmit' = triggerOnChange(newColor, fmts)

\* A handler that neither sets the colour nor calls onChange.
NoSelection ==
  /\ selecting' = FALSE
  /\ changed' = FALSE
  /\ lastEmit' = <<>>
  /\ UNCHANGED color

---------------------------------------------------------------------------
(* Pointer handlers                                                        *)

\* A wheelSaturation without the Math.min.
wheelSaturationUnclamped(distance, radius) == DistOver(distance, radius)

\* Math.min(1, distance / wheelRadius)
wheelSaturation(distance, radius) == RatMin(One, DistOver(distance, radius))

\* A ringAlpha that measures the angle from 3 o'clock: without the
\* "+ Math.PI / 2".
ringAlphaFromThree(rad) ==
  LET angle == IF rad < 0 THEN rad + 360 * HueUnit ELSE rad
  IN  RatMax(Zero, RatMin(One, Rat(360 * HueUnit - angle, 360 * HueUnit)))

\* Math.max(0, Math.min(1, 1 - angle / (2 * Math.PI))) for the angle
\* getAngle(...) + Math.PI / 2, plus 2 * Math.PI when negative.
ringAlpha(rad) ==
  LET a0    == rad + 90 * HueUnit
      angle == IF a0 < 0 THEN a0 + 360 * HueUnit ELSE a0
  IN  RatMax(Zero, RatMin(One, Rat(360 * HueUnit - angle, 360 * HueUnit)))

updateColorFromPosition(x, y) ==
  LET distance   == getDistance(x, y, centerX, centerY)
      angle      == getAngle(x, y, centerX, centerY)
      hue        == radToDeg(angle)
      saturation == wheelSaturation(distance, wheelRadius)
      newColor   == [color EXCEPT !.h = hue, !.s = saturation]
  IN  SetAndTrigger(newColor, formats)

updateAlphaFromPosition(x, y) ==
  LET alpha    == ringAlpha(getAngle(x, y, centerX, centerY))
      newColor == [color EXCEPT !.a = alpha]
  IN  SetAndTrigger(newColor, formats)

handlePointerDown(x, y) ==
  LET distance == getDistance(x, y, centerX, centerY)
  IN  IF DistLe(distance, wheelRadius)
      THEN /\ isDragging' = TRUE
           /\ dragTarget' = "color"
           /\ selecting' = TRUE
           /\ updateColorFromPosition(x, y)
      ELSE IF DistGe(distance, alphaInnerRadius) /\ DistLe(distance, alphaOuterRadius)
      THEN /\ isDragging' = TRUE
           /\ dragTarget' = "alpha"
           /\ selecting' = TRUE
           /\ updateAlphaFromPosition(x, y)
      ELSE /\ NoSelection
           /\ UNCHANGED <<isDragging, dragTarget>>

\* A handlePointerMove that chooses the update by the region under the
\* pointer, as handlePointerDown does, instead of by dragTarget.
handlePointerMoveByRegion(x, y) ==
  LET distance == getDistance(x, y, centerX, centerY)
  IN  /\ UNCHANGED <<isDragging, dragTarget>>
      /\ IF ~isDragging
         THEN NoSelection
         ELSE IF DistLe(distance, wheelRadius)
         THEN selecting' = TRUE /\ updateColorFromPosition(x, y)
         ELSE IF DistGe(distance, alphaInnerRadius) /\ DistLe(distance, alphaOuterRadius)
         THEN selecting' = TRUE /\ updateAlphaFromPosition(x, y)
         ELSE NoSelection

handlePointerMove(x, y) ==
  /\ UNCHANGED <<isDragging, dragTarget>>
  /\ IF ~isDragging
     THEN NoSelection
     ELSE IF dragTarget = "color"
     THEN selecting' = TRUE /\ updateColorFromPosition(x, y)
     ELSE IF dragTarget = "alpha"
     THEN selecting' = TRUE /\ updateAlphaFromPosition(x, y)
     ELSE NoSelection

handlePointerUp ==
  /\ isDragging' = FALSE
  /\ dragTarget' = "null"
  /\ NoSelection

\* A pointer-down (mousedown, touchstart on the canvas) at the offset o
\* from the centre; traced: whether the position is recorded.
PointerDownAt(o, traced) ==
  LET x == centerX + o[1]
      y == centerY + o[2]
  IN  /\ handlePointerDown(x, y)
      /\ pointer' = IF traced THEN <<x, y>> ELSE <<>>
      /\ UNCHANGED <<size, formats, hasEyeDropper, eye, io>>

\* A pointer-move (mousemove, touchmove on the document).
PointerMoveAt(o, traced) ==
  LET x == centerX + o[1]
      y == centerY + o[2]
  IN  /\ handlePointerMove(x, y)
      /\ pointer' = IF traced THEN <<x, y>> ELSE <<>>
      /\ UNCHANGED <<size, formats, hasEyeDropper, eye, io>>

PointerDown == \E o \in Offsets : PointerDownAt(o, FALSE)

PointerMove == \E o \in Offsets : PointerMoveAt(o, FALSE)

\* A pointer-up (mouseup, touchend on the document).
PointerUp ==
  /\ handlePointerUp
  /\ pointer' = <<>>
  /\ UNCHANGED <<size, formats, hasEyeDropper, eye, io>>

---------------------------------------------------------------------------
(* Brightness bar and preset rings                                         *)

\* A handleBrightnessChange that keeps the colour as RGB: it scales the
\* colour to the new brightness and reads hue and saturation back from the
\* RGB result.
handleBrightnessChangeViaRgb(newV) ==
  LET rgb == hsvToRgb(color.h, color.s, newV)
      hsv == rgbToHsv(rgb.r, rgb.g, rgb.b)
      newColor == [color EXCEPT !.h = hsv.h, !.s = hsv.s, !.v = newV]
  IN  SetAndTrigger(newColor, formats)

\* newV = parseFloat(e.target.value)
handleBrightnessChange(newV) ==
  LET newColor == [color EXCEPT !.v = newV]
  IN  SetAndTrigger(newColor, formats)

\* A handleColorRingClick that builds the colour from the converted preset
\* alone, with full opacity, instead of spreading the current colour.
handleColorRingClickOpaque(hexColor) ==
  LET r == parseInt16(hexColor, 1)
      g == parseInt16(hexColor, 3)
      b == parseInt16(hexColor, 5)
      hsv == rgbToHsv(r, g, b)
      newColor == [h |-> hsv.h, s |-> hsv.s, v |-> hsv.v, a |-> One]
  IN  SetAndTrigger(newColor, formats)

handleColorRingClick(hexColor) ==
  LET r == parseInt16(hexColor, 1)
      g == parseInt16(hexColor, 3)
      b == parseInt16(hexColor, 5)
      hsv == rgbToHsv(r, g, b)
      newColor == [color EXCEPT !.h = hsv.h, !.s = hsv.s, !.v = hsv.v]
  IN  SetAndTrigger(newColor, formats)

\* INTERACTION_CONSTANTS.COLOR_RING_TOLERANCE: HUE in degrees,
\* SATURATION_VALUE as the fraction 0.1.
COLOR_RING_TOLERANCE == [HUE |-> 10, SATURATION_VALUE |-> <<1, 10>>]

\* Math.abs(a - b) for two fractions.
RatAbsDiff(a, b) == Rat(Abs(a[1] * b[2] - b[1] * a[2]), a[2] * b[2])

\* An isColorRingActive that also requires full opacity.
isColorRingActiveOpaque(c, hexColor) ==
  LET r == parseInt16(hexColor, 1)
      g == parseInt16(hexColor, 3)
      b == parseInt16(hexColor, 5)
      hsv == rgbToHsv(r, g, b)
  IN  /\ Abs(c.h - hsv.h) < COLOR_RING_TOLERANCE.HUE * HueUnit
      /\ RatLt(RatAbsDiff(c.s, hsv.s), COLOR_RING_TOLERANCE.SATURATION_VALUE)
      /\ RatLt(RatAbsDiff(c.v, hsv.v), COLOR_RING_TOLERANCE.SATURATION_VALUE)
      /\ c.a = One

\* isColorRingActive(hexColor) in a render whose state is c.
isColorRingActive(c, hexColor) ==
  LET r == parseInt16(hexColor, 1)
      g == parseInt16(hexColor, 3)
      b == parseInt16(hexColor, 5)
      hsv == rgbToHsv(r, g, b)
  IN  /\ Abs(c.h - hsv.h) < COLOR_RING_TOLERANCE.HUE * HueUnit
      /\ RatLt(RatAbsDiff(c.s, hsv.s), COLOR_RING_TOLERANCE.SATURATION_VALUE)
      /\ RatLt(RatAbsDiff(c.v, hsv.v), COLOR_RING_TOLERANCE.SATURATION_VALUE)

BrightnessChange ==
  /\ \E newV \in BrightnessValues : handleBrightnessChange(newV)
  /\ selecting' = TRUE
  /\ pointer' = <<>>
  /\ UNCHANGED <<isDragging, dragTarget, size, formats, hasEyeDropper, eye, io>>

ColorRingClick ==
  /\ \E i \in 1..PaletteLen : handleColorRingClick(DEFAULT_COLOR_PALETTE[i])
  /\ selecting' = TRUE
  /\ pointer' = <<>>
  /\ UNCHANGED <<isDragging, dragTarget, size, formats, hasEyeDropper, eye, io>>

---------------------------------------------------------------------------
(* handleEyedropper                                                        *)
(*                                                                         *)
(* handleEyedropper is async: after each await, and in the listeners it    *)
(* registers, it runs in the closure of the render in which the button was *)
(* clicked, so it reads the color.a and the triggerOnChange (hence the     *)
(* formats) of that render.  The model follows one session at a time.      *)
(* Stages: "idle"; "native" (awaiting eyeDropper.open()); "capture"        *)
(* (awaiting getDisplayMedia and the video metadata); "overlay" (overlay   *)
(* in the document, its listeners and the document keydown listener        *)
(* registered); "keys" (overlay removed by pickColor, the keydown listener *)
(* still registered); "input" (the colour input of the last fallback       *)
(* opened).  eye.samples counts the samples the session has applied, up to *)
(* MaxSamples.                                                             *)

MaxSamples == 2

IdleEye == [stage |-> "idle", a |-> Zero, formats |-> <<>>, samples |-> 0]

\* The session after a step to stage `to` that applied `n` samples; the
\* session ends with the step to "idle".
EyeAfter(to, n) ==
  IF to = "idle" THEN IdleEye
  ELSE [eye EXCEPT !.stage = to, !.samples = Min2(@ + n, MaxSamples)]

\* const hsv = rgbToHsv(r, g, b); const newColor = { ...hsv, a: color.a };
\* setColor(newColor); triggerOnChange(newColor), in the session's closure.
applySample(rgb) ==
  LET hsv == rgbToHsv(rgb[1], rgb[2], rgb[3])
      newColor == [h |-> hsv.h, s |-> hsv.s, v |-> hsv.v, a |-> eye.a]
  IN  SetAndTrigger(newColor, eye.formats)

\* const r = parseInt(hex.slice(1, 3), 16), g and b alike, then as
\* applySample.
applyHexSample(hex) ==
  applySample(<<parseInt16(hex, 1), parseInt16(hex, 3), parseInt16(hex, 5)>>)

\* A step of the session that delivers a hex string and moves to stage `to`.
HexSampleStep(from, to) ==
  /\ eye.stage = from
  /\ \E hex \in HexSamples : applyHexSample(hex)
  /\ selecting' = TRUE
  /\ eye' = EyeAfter(to, 1)
  /\ pointer' = <<>>
  /\ UNCHANGED <<isDragging, dragTarget, size, formats, hasEyeDropper, io>>

\* A step of the session that delivers a pixel and moves to stage `to`.
SampleStep(from, to) ==
  /\ eye.stage = from
  /\ \E rgb \in Samples : applySample(rgb)
  /\ selecting' = TRUE
  /\ eye' = EyeAfter(to, 1)
  /\ pointer' = <<>>
  /\ UNCHANGED <<isDragging, dragTarget, size, formats, hasEyeDropper, io>>

\* A step of the session that delivers nothing and moves to stage `to`.
QuietStep(from, to) ==
  /\ eye.stage = from
  /\ eye' = EyeAfter(to, 0)
  /\ NoSelection
  /\ pointer' = <<>>
  /\ UNCHANGED <<isDragging, dragTarget, size, formats, hasEyeDropper, io>>

\* The overlay is a child of document.body: from appendChild to the
\* removeChild of cleanup.
overlayInDocument == eye.stage = "overlay"

\* handleKeyDown is registered on the document: from addEventListener to
\* the removeEventListener of the Escape branch or of cleanupWithKeyboard.
keydownRegistered == eye.stage \in {"overlay", "keys"}

\* The click on the eyedropper button, up to the first await.
EyedropperClick ==
  /\ eye.stage = "idle"
  /\ eye' = [stage |-> IF hasEyeDropper THEN "native" ELSE "capture",
             a |-> color.a, formats |-> formats, samples |-> 0]
  /\ NoSelection
  /\ pointer' = <<>>
  /\ UNCHANGED <<isDragging, dragTarget, size, formats, hasEyeDropper, io>>

\* eyeDropper.open() resolves with a colour.
NativeResolve ==
  /\ eye.stage = "native"
  /\ HexSampleStep("native", "idle")

\* A rejection of eyeDropper.open() that falls through to the screen
\* capture: the catch without its return.
NativeRejectFallsThrough ==
  /\ eye.stage = "native"
  /\ QuietStep("native", "capture")

\* eyeDropper.open() rejects: the catch returns.
NativeReject ==
  /\ eye.stage = "native"
  /\ QuietStep("native", "idle")

\* getDisplayMedia resolves and the overlay is set up.
CaptureGranted ==
  /\ eye.stage = "capture"
  /\ QuietStep("capture", "overlay")

\* getDisplayMedia throws: the colour input is created and opened.
CaptureDenied ==
  /\ eye.stage = "capture"
  /\ QuietStep("capture", "input")

\* pickColor, from the overlay's click, touchend or pointerup listener or
\* from Enter: the sample is applied and cleanup removes the overlay; the
\* keydown listener stays registered.
OverlayPick ==
  /\ eye.stage = "overlay"
  /\ SampleStep("overlay", "keys")

\* Escape, or a mouse click on the Cancel button (cleanupWithKeyboard): the
\* keydown listener and the overlay are removed.  The click and the
\* pointerup of the button bubble to the overlay, whose listeners pick only
\* when e.target === overlay.
OverlayCancel ==
  /\ eye.stage = "overlay"
  /\ QuietStep("overlay", "idle")

\* A tap on the Cancel button with a finger: its touchend bubbles to the
\* overlay, whose touchend listener has no test of e.target; it calls
\* preventDefault, so that no click reaches the button, and pickColor with
\* the position of the touch.
OverlayCancelTap ==
  /\ eye.stage = "overlay"
  /\ SampleStep("overlay", "keys")

\* Enter after the overlay was removed: the listener left behind calls
\* pickColor again.  The overlay's rectangle is now empty, so the pixel
\* position is not finite: getImageData either takes it as 0 and the sample
\* is applied (cleanup then fails in removeChild), or rejects it with a
\* TypeError before anything is applied, as the platform has it.
KeysEnter ==
  /\ eye.stage = "keys"
  /\ \/ SampleStep("keys", "keys")
     \/ QuietStep("keys", "keys")

\* Escape after the overlay was removed: the listener removes itself.
KeysEscape ==
  /\ eye.stage = "keys"
  /\ QuietStep("keys", "idle")

\* The change event of the colour input.
InputChange ==
  /\ eye.stage = "input"
  /\ HexSampleStep("input", "idle")

\* The colour dialog is dismissed: no change event.
InputDismiss ==
  /\ eye.stage = "input"
  /\ QuietStep("input", "idle")

---------------------------------------------------------------------------
(* Prop changes after mount (a re-render with new props)                   *)

\* size only feeds the memoized layout values.
SetSize ==
  /\ \E sz \in Sizes \ {size} : size' = sz
  /\ NoSelection
  /\ pointer' = <<>>
  /\ UNCHANGED <<isDragging, dragTarget, formats, hasEyeDropper, eye, io>>

\* formats only feeds triggerOnChange.
SetFormats ==
  /\ \E f \in FormatChoices \ {formats} : formats' = f
  /\ NoSelection
  /\ pointer' = <<>>
  /\ UNCHANGED <<isDragging, dragTarget, size, hasEyeDropper, eye, io>>

\* A re-render that synchronises the state with the initialColor prop.
resyncInitialColor(initialColor) ==
  /\ color' = [h |-> rgbToHsv(initialColor.r, initialColor.g, initialColor.b).h,
               s |-> rgbToHsv(initialColor.r, initialColor.g, initialColor.b).s,
               v |-> rgbToHsv(initialColor.r, initialColor.g, initialColor.b).v,
               a |-> initialColor.a]
  /\ selecting' = FALSE
  /\ changed' = (color' # color)
  /\ lastEmit' = <<>>

\* initialColor is read by the useState initializer only, which does not
\* run again: a re-render with another initialColor sets nothing.
rerenderInitialColor(initialColor) == NoSelection

SetInitialColor ==
  /\ \E c \in InitialColors : rerenderInitialColor(c)
  /\ pointer' = <<>>
  /\ UNCHANGED <<isDragging, dragTarget, size, formats, hasEyeDropper, eye, io>>

---------------------------------------------------------------------------
(* The widget                                                              *)

\* An initial state that ignores the alpha of initialColor: a: 1.
initialStateOpaque(initialColor) ==
  LET hsv == rgbToHsv(initialColor.r, initialColor.g, initialColor.b)
  IN  [h |-> hsv.h, s |-> hsv.s, v |-> hsv.v, a |-> One]

\* useState(() => { const { h, s, v } = rgbToHsv(...); return { h, s, v,
\* a: initialColor.a ?? 1 } })
initialState(initialColor) ==
  LET hsv == rgbToHsv(initialColor.r, initialColor.g, initialColor.b)
  IN  [h |-> hsv.h, s |-> hsv.s, v |-> hsv.v, a |-> initialColor.a]

\* The state after mount, for the given sets of props.
Mounted(initialColors, sizes, formatChoices) ==
  /\ \E c \in initialColors : color = initialState(c)
  /\ isDragging = FALSE
  /\ dragTarget = "null"
  /\ size \in sizes
  /\ formats \in formatChoices
  /\ hasEyeDropper \in BOOLEAN
  /\ eye = IdleEye
  /\ pointer = <<>>
  /\ selecting = FALSE
  /\ changed = FALSE
  /\ lastEmit = <<>>

Init ==
  /\ Mounted(InitialColors, Sizes, FormatChoices)
  /\ io = <<>>

Next ==
  \/ PointerDown
  \/ PointerMove
  \/ PointerUp
  \/ BrightnessChange
  \/ ColorRingClick
  \/ EyedropperClick
  \/ NativeResolve
  \/ NativeReject
  \/ CaptureGranted
  \/ CaptureDenied
  \/ OverlayPick
  \/ OverlayCancel
  \/ OverlayCancelTap
  \/ KeysEnter
  \/ KeysEscape
  \/ InputChange
  \/ InputDismiss
  \/ SetSize
  \/ SetFormats
  \/ SetInitialColor

Spec == Init /\ [][Next]_vars

---------------------------------------------------------------------------
(* The pointer geometry: the canvas handlers and the prop changes, with    *)
(* the pointer position traced                                             *)

\* Offsets of the traced pointer events from the centre.
\*   <<0, -79>>, <<0, 79>>: inside the wheel for size 300; on the ring at
\*                          12 and at 6 o'clock for size 180
\*   <<-105, 0>>:           on the edge of the wheel for size 300
\*   <<0, -110>>:           in the gap for size 300, outside for 180
\*   <<0, 138>>:            ring at 6 o'clock for size 300, outside for 180
\*   <<40, -40>>:           inside the wheel for both sizes
\*   <<118, -1>>:           in the gap for size 300, outside for 180, less
\*                          than half a degree before 3 o'clock
PointerOffsets ==
  { <<0, -79>>, <<0, 79>>, <<-105, 0>>, <<0, -110>>, <<0, 138>>, <<40, -40>>,
    <<118, -1>> }

TracedPointerDown == \E o \in PointerOffsets : PointerDownAt(o, TRUE)

TracedPointerMove == \E o \in PointerOffsets : PointerMoveAt(o, TRUE)

InitPointer ==
  /\ Mounted({[r |-> 255, g |-> 0, b |-> 0, a |-> One]}, Sizes, FormatChoices)
  /\ io = <<>>

NextPointer ==
  \/ TracedPointerDown
  \/ TracedPointerMove
  \/ PointerUp
  \/ SetSize
  \/ SetFormats
  \/ SetInitialColor

SpecPointer == InitPointer /\ [][NextPointer]_vars

---------------------------------------------------------------------------
(* The converters of utils/colors.ts as pure functions                     *)

\* The channel values the conversions are applied to.
Channels == {0, 1, 2, 50, 100, 120, 128, 205, 254, 255}

widgetVars == <<color, isDragging, dragTarget, size, formats, hasEyeDropper,
                eye, pointer, selecting, changed, lastEmit>>

\* rgbToHsv(r, g, b) on integer channels starts a chain.
ConvToHsv ==
  /\ io = <<>>
  /\ \E r \in Channels, g \in Channels, b \in Channels :
       io' = << [fn |-> "rgbToHsv", arg |-> <<r, g, b>>,
                 res |-> rgbToHsv(r, g, b)] >>
  /\ UNCHANGED widgetVars

\* hsvToRgb(h, s, v) on the result of rgbToHsv.
ConvToRgb ==
  /\ Len(io) = 1
  /\ io[1].fn = "rgbToHsv"
  /\ LET hsv == io[1].res
     IN  io' = Append(io, [fn |-> "hsvToRgb", arg |-> hsv,
                           res |-> hsvToRgb(hsv.h, hsv.s, hsv.v)])
  /\ UNCHANGED widgetVars

\* The angles radToDeg is applied to, in hundredths of a degree: the
\* Math.atan2 range (-pi, pi] and angles beyond it on both sides, down to
\* -3 * pi.
Angles == {-54000, -45000, -36001, -36000, -18000, -9000, -1, 0, 1, 9000,
           18000, 35999, 36000, 54000}

\* radToDeg(rad) on an angle.
ConvRadToDeg ==
  /\ io = <<>>
  /\ \E rad \in Angles :
       io' = << [fn |-> "radToDeg", arg |-> rad, res |-> radToDeg(rad)] >>
  /\ UNCHANGED widgetVars

\* The channel values rgbToHex is applied to: one and two hexadecimal
\* digits, with digits on both sides of 9.
HexChannels == {0, 9, 10, 15, 16, 31, 160, 255}

\* rgbToHex(r, g, b) on integer channels starts a chain.
ConvToHex ==
  /\ io = <<>>
  /\ \E r \in HexChannels, g \in HexChannels, b \in HexChannels :
       io' = << [fn |-> "rgbToHex", arg |-> <<r, g, b>>,
                 res |-> rgbToHex(r, g, b)] >>
  /\ UNCHANGED widgetVars

\* The three parseInt(hex.slice(i, i + 2), 16) of handleColorRingClick and
\* of the eyedropper handlers, on the result of rgbToHex.
ConvParseHex ==
  /\ Len(io) = 1
  /\ io[1].fn = "rgbToHex"
  /\ LET hex == io[1].res
     IN  io' = Append(io, [fn |-> "parseInt", arg |-> hex,
                           res |-> <<parseInt16(hex, 1), parseInt16(hex, 3),
                                     parseInt16(hex, 5)>>])
  /\ UNCHANGED widgetVars

\* rgbToHsl(r, g, b) on integer channels.
ConvToHsl ==
  /\ io = <<>>
  /\ \E r \in Channels, g \in Channels, b \in Channels :
       io' = << [fn |-> "rgbToHsl", arg |-> <<r, g, b>>,
                 res |-> rgbToHsl(r, g, b)] >>
  /\ UNCHANGED widgetVars

\* The gray levels: r = g = b = c.
Grays == 0..255

\* rgbToHsv(c, c, c) or rgbToHsl(c, c, c) on a gray.
ConvGray ==
  /\ io = <<>>
  /\ \E c \in Grays :
       \/ io' = << [fn |-> "rgbToHsv", arg |-> <<c, c, c>>,
                    res |-> rgbToHsv(c, c, c)] >>
       \/ io' = << [fn |-> "rgbToHsl", arg |-> <<c, c, c>>,
                    res |-> rgbToHsl(c, c, c)] >>
  /\ UNCHANGED widgetVars

\* The alphas whose indicator is placed: the multiples of 1 / AlphaSteps.
AlphaSteps == 8

Alphas == { Rat(k, AlphaSteps) : k \in 0..AlphaSteps }

\* alphaAngle = (1 - color.a) * 2 * Math.PI - Math.PI / 2, in hundredths of
\* a degree (a whole number for the alphas of Alphas).
alphaAngle(alpha) ==
  ((alpha[2] - alpha[1]) * 360 * HueUnit) \div alpha[2] - 90 * HueUnit

\* getAngle of the point center + ringRadius * (cos(theta), sin(theta)) for
\* theta in [-90, 270] degrees: Math.atan2 returns the direction of the
\* point in (-180, 180] degrees.
angleOfIndicator(theta) ==
  IF theta > 180 * HueUnit THEN theta - 360 * HueUnit ELSE theta

\* The alpha updateAlphaFromPosition computes for a pointer at the
\* position of the alpha indicator.
ConvAlpha ==
  /\ io = <<>>
  /\ \E a \in Alphas :
       io' = << [fn |-> "alphaAtIndicator", arg |-> a,
                 res |-> ringAlpha(angleOfIndicator(alphaAngle(a)))] >>
  /\ UNCHANGED widgetVars

\* The values of the size prop the component is used with: the example's
\* 120, 180 and the default.
UsedSizes == {120, 180, DEFAULT_SIZE}

\* The radii of the alpha ring the layout memo computes for a size.
ConvLayout ==
  /\ io = <<>>
  /\ \E sz \in UsedSizes :
       io' = << [fn |-> "layout", arg |-> sz,
                 res |-> [alphaInnerRadius |-> alphaInnerRadiusOf(sz),
                          alphaOuterRadius |-> alphaOuterRadiusOf(sz)]] >>
  /\ UNCHANGED widgetVars

InitConv ==
  /\ Mounted({[r |-> 255, g |-> 0, b |-> 0, a |-> One]}, {DEFAULT_SIZE}, {<<>>})
  /\ io = <<>>

NextConv ==
  \/ ConvToHsv
  \/ ConvToRgb
  \/ ConvRadToDeg
  \/ ConvToHex
  \/ ConvParseHex
  \/ ConvToHsl
  \/ ConvGray
  \/ ConvAlpha
  \/ ConvLayout

SpecConv == InitConv /\ [][NextConv]_vars

---------------------------------------------------------------------------
(* The brightness bar taken to 0 and back                                  *)
(*                                                                         *)
(* io remembers the state in which the bar was taken to 0: <<c>> after the *)
(* bar went to 0 from the state c, <<c, c>> after it went back to c.v.     *)

\* The positions of the range input (min 0, max 1, step 0.01) the bar is
\* moved to, in hundredths.
SliderTicks == {1, 33, 50, 100}

\* The bar is moved to one of SliderTicks.
SliderTo ==
  /\ \E k \in SliderTicks : handleBrightnessChange(Rat(k, 100))
  /\ selecting' = TRUE
  /\ pointer' = <<>>
  /\ UNCHANGED <<isDragging, dragTarget, size, formats, hasEyeDropper, eye, io>>

\* The bar is moved to 0.
DimToZero ==
  /\ handleBrightnessChange(Zero)
  /\ selecting' = TRUE
  /\ io' = <<color>>
  /\ pointer' = <<>>
  /\ UNCHANGED <<isDragging, dragTarget, size, formats, hasEyeDropper, eye>>

\* The bar is moved back from 0 to the brightness it left, with no other
\* selection in between.
RestoreBrightness ==
  /\ Len(io) = 1
  /\ color = [io[1] EXCEPT !.v = Zero]
  /\ handleBrightnessChange(io[1].v)
  /\ selecting' = TRUE
  /\ io' = <<io[1], io[1]>>
  /\ pointer' = <<>>
  /\ UNCHANGED <<isDragging, dragTarget, size, formats, hasEyeDropper, eye>>

NextBright ==
  \/ DimToZero
  \/ RestoreBrightness
  \/ SliderTo
  \/ PointerDown
  \/ PointerUp
  \/ ColorRingClick

SpecBright == Init /\ [][NextBright]_vars

---------------------------------------------------------------------------
(* Properties                                                              *)

\* The emissions of the handler that ran last, by index, and the argument
\* onChange received in the i-th.
Emitted == 1..Len(lastEmit)

EmittedArg(i) == onChangeArg(lastEmit[i].color, lastEmit[i].formats)

\* C1: after any sequence of widget operations the hue of the stored HSVA
\* state is at least 0 and less than 360 degrees.
HueInRange == color.h >= 0 /\ color.h < 360 * HueUnit

\* A wheel selection straight above the centre, where Math.atan2 is
\* -Math.PI / 2, has stored the hue 270.
HueWrappedReached ==
  /\ dragTarget = "color"
  /\ Len(lastEmit) = 1
  /\ color.h = 270 * HueUnit

\* C2: every value handed to onChange is the projection of exactly the HSVA
\* value the same event stores, and an event that hands nothing to onChange
\* stores nothing; so the last emitted value is always the projection of the
\* current state.
EmitsProjectionOfState ==
  [][ /\ \A i \in 1..Len(lastEmit') : lastEmit'[i].color = color'
      /\ (lastEmit' = <<>> => color' = color) ]_vars

\* An event has changed the state and emitted its projection.
ProjectionEmitted ==
  /\ changed
  /\ Len(lastEmit) = 1
  /\ lastEmit[1].color = color
  /\ EmittedArg(1) = onChangeArg(color, lastEmit[1].formats)

\* C3: for the integer RGB triple a chain started from, hsvToRgb of the
\* h, s, v that rgbToHsv returned differs from it by at most 1 in every
\* channel.
RoundTripWithinOne ==
  (Len(io) = 2 /\ io[2].fn = "hsvToRgb") =>
    /\ Abs(io[2].res.r - io[1].arg[1]) <= 1
    /\ Abs(io[2].res.g - io[1].arg[2]) <= 1
    /\ Abs(io[2].res.b - io[1].arg[3]) <= 1

\* C4: when the formats list of the emitting render has exactly one element
\* f, onChange receives an object whose only key is f, mapped to that
\* representation of the new colour.
SingleFormatKeyed ==
  \A i \in Emitted :
    Len(lastEmit[i].formats) = 1 =>
      /\ EmittedArg(i).keys = {lastEmit[i].formats[1]}
      /\ EmittedArg(i).val =
           [k \in {lastEmit[i].formats[1]} |-> formatResults(lastEmit[i].color, k)]

\* C5: when the formats list of the emitting render has two or more
\* elements, onChange receives a mapping whose key set is exactly the set of
\* the requested names, each mapped to that representation of the new colour.
MultiFormatKeyed ==
  \A i \in Emitted :
    Len(lastEmit[i].formats) >= 2 =>
      LET fmts == lastEmit[i].formats
          arg  == EmittedArg(i)
      IN  /\ arg.keys = {fmts[j] : j \in 1..Len(fmts)}
          /\ DOMAIN arg.val = arg.keys
          /\ \A k \in arg.keys : arg.val[k] = formatResults(color, k)

\* A selection under formats ["rgba", "hsv"] has emitted a mapping with
\* exactly these two keys.
MultiFormatEmitted ==
  /\ Len(lastEmit) = 1
  /\ lastEmit[1].formats = <<"rgba", "hsv">>
  /\ EmittedArg(1).keys = {"rgba", "hsv"}
  /\ EmittedArg(1).val["hsv"].h = 270

\* C6: when the formats list of the emitting render is absent or empty,
\* onChange receives one object with the keys r, g, b, h, s, v, a: the new
\* state's h, s, v and a together with hsvToRgb of the new state.
DefaultMerged ==
  \A i \in Emitted :
    Len(lastEmit[i].formats) = 0 =>
      LET arg == EmittedArg(i)
          rgb == hsvToRgb(color.h, color.s, color.v)
      IN  /\ arg.keys = {"r", "g", "b", "h", "s", "v", "a"}
          /\ arg.val.h = color.h /\ arg.val.s = color.s
          /\ arg.val.v = color.v /\ arg.val.a = color.a
          /\ arg.val.r = rgb.r /\ arg.val.g = rgb.g /\ arg.val.b = rgb.b

\* A selection without formats has emitted the merged object of a state
\* that is not the mounted one.
DefaultEmitted ==
  /\ Len(lastEmit) = 1
  /\ lastEmit[1].formats = <<>>
  /\ changed
  /\ EmittedArg(1).keys = {"r", "g", "b", "h", "s", "v", "a"}
  /\ EmittedArg(1).val.h = color.h

\* Whether the position p = <<x, y>> is inside the wheel, on the alpha
\* ring, between the two, or beyond the ring.
InWheel(p) == DistLe(getDistance(p[1], p[2], centerX, centerY), wheelRadius)

OnRing(p) ==
  LET d == getDistance(p[1], p[2], centerX, centerY)
  IN  DistGe(d, alphaInnerRadius) /\ DistLe(d, alphaOuterRadius)

InGap(p) ==
  LET d == getDistance(p[1], p[2], centerX, centerY)
  IN  ~DistLe(d, wheelRadius) /\ ~DistGe(d, alphaInnerRadius)

BeyondRing(p) ==
  ~DistLe(getDistance(p[1], p[2], centerX, centerY), alphaOuterRadius)

\* C7: each colour-selection event (a pointer-down inside the wheel or on
\* the alpha ring, a pointer-move while a drag is active, a brightness
\* change, a preset-ring click, a delivered eyedropper sample) calls onChange
\* exactly once, with the colour it stores, even when that colour equals the
\* previous one.
OnChangeOncePerSelection ==
  selecting => (Len(lastEmit) = 1 /\ lastEmit[1].color = color)

\* A selection that left the colour as it was has called onChange once.
UnchangedColourEmitted ==
  /\ selecting
  /\ ~changed
  /\ Len(lastEmit) = 1
  /\ lastEmit[1].color = color

\* An event of the pointer specification that selects no colour: pointer-up,
\* a pointer-move while no drag is active, a pointer-down between wheel and
\* ring or beyond the ring, a change of the size, formats or initialColor
\* prop.
QuietEvent ==
  \/ PointerUp
  \/ ~isDragging /\ TracedPointerMove
  \/ \E o \in PointerOffsets :
       LET p == <<centerX + o[1], centerY + o[2]>>
       IN  (InGap(p) \/ BeyondRing(p)) /\ handlePointerDown(p[1], p[2])
  \/ SetSize
  \/ SetFormats
  \/ SetInitialColor

\* C8: pointer-up, pointer-move without a drag, pointer-down between wheel
\* and ring or beyond the ring, and a change of the initialColor, size or
\* formats prop leave the HSVA state unchanged and call onChange zero times.
OnlySelectionsChangeState ==
  [][ QuietEvent => (color' = color /\ lastEmit' = <<>>) ]_vars

\* A pointer event between wheel and ring, outside a drag, has left a
\* state that earlier selections had moved away from the mounted one.
QuietPointerReached ==
  /\ pointer # <<>>
  /\ InGap(pointer)
  /\ ~isDragging
  /\ lastEmit = <<>>
  /\ ~changed
  /\ color.h # 0

\* C9: after a wheel update at a pointer position, the stored saturation is
\* min(1, distance / wheelRadius): it lies in [0, 1], and it is 1 when the
\* pointer is at or beyond the wheel edge; the stored s never exceeds 1.
SaturationClamped ==
  /\ RatLe(Zero, color.s) /\ RatLe(color.s, One)
  /\ (pointer # <<>> /\ dragTarget = "color" /\ Len(lastEmit) = 1) =>
       LET d == getDistance(pointer[1], pointer[2], centerX, centerY)
       IN  /\ color.s = RatMin(One, DistOver(d, wheelRadius))
           /\ (DistGe(d, wheelRadius) => color.s = One)
           /\ (~DistGe(d, wheelRadius) => RatLt(color.s, One))

\* A colour drag has moved the pointer beyond the wheel edge, and the
\* stored saturation is 1.
BeyondEdgeReached ==
  /\ pointer # <<>>
  /\ dragTarget = "color"
  /\ Len(lastEmit) = 1
  /\ ~InWheel(pointer)
  /\ color.s = One

\* An alpha update with the pointer straight above (below) the centre.
AlphaUpdateAbove ==
  /\ pointer # <<>> /\ dragTarget = "alpha" /\ Len(lastEmit) = 1
  /\ pointer[1] = centerX /\ pointer[2] < centerY

AlphaUpdateBelow ==
  /\ pointer # <<>> /\ dragTarget = "alpha" /\ Len(lastEmit) = 1
  /\ pointer[1] = centerX /\ pointer[2] > centerY

\* C10, as the code has it: the alpha mapping gives alpha = 1 for a pointer
\* straight above the centre (12 o'clock) and alpha = 1/2 for a pointer
\* straight below the centre (6 o'clock).
AlphaOneAboveHalfBelow ==
  /\ AlphaUpdateAbove => color.a = One
  /\ AlphaUpdateBelow => color.a = <<1, 2>>

\* C10, as stated: alpha = 1 straight above the centre and alpha = 0
\* straight below it.
AlphaOneAboveZeroBelow ==
  /\ AlphaUpdateAbove => color.a = One
  /\ AlphaUpdateBelow => color.a = Zero

\* An alpha update straight below the centre has stored alpha = 1/2.
AlphaBelowReached == AlphaUpdateBelow /\ color.a = <<1, 2>>

\* C11: radToDeg returns a value in [0, 360) for every angle it is given,
\* also for angles below -2 * pi, outside the range of Math.atan2.
RadToDegInRange ==
  \A i \in 1..Len(io) :
    io[i].fn = "radToDeg" =>
      (io[i].res >= 0 /\ io[i].res < 360 * HueUnit)

\* The two lowercase hexadecimal digits of a channel value in 0..255.
TwoDigits(c) == <<HexDigits[(c \div 16) + 1], HexDigits[(c % 16) + 1]>>

\* C12: for integer channels in 0..255 rgbToHex returns 7 characters, "#"
\* and the two-digit zero-padded lowercase hexadecimal forms of r, g and b,
\* and parsing the three digit pairs in base 16 gives back (r, g, b).
HexSevenCharsAndParsesBack ==
  /\ (Len(io) >= 1 /\ io[1].fn = "rgbToHex") =>
       /\ Len(io[1].res) = 7
       /\ io[1].res = <<"#">> \o TwoDigits(io[1].arg[1])
                         \o TwoDigits(io[1].arg[2]) \o TwoDigits(io[1].arg[3])
  /\ (Len(io) = 2 /\ io[2].fn = "parseInt") => io[2].res = io[1].arg

\* A triple with a channel below 16 and a channel with a letter digit has
\* been formatted with its padding and parsed back.
PaddedHexParsedBack ==
  /\ Len(io) = 2
  /\ io[2].fn = "parseInt"
  /\ io[1].arg = <<9, 160, 255>>
  /\ io[1].res = <<"#", "0", "9", "a", "0", "f", "f">>
  /\ io[2].res = <<9, 160, 255>>

\* The first conversion of the chain was applied to a gray, r = g = b.
GrayInput ==
  /\ Len(io) >= 1
  /\ io[1].fn \in {"rgbToHsv", "rgbToHsl"}
  /\ io[1].arg[1] = io[1].arg[2]
  /\ io[1].arg[2] = io[1].arg[3]

\* C13: for every gray r = g = b in 0..255, black included, rgbToHsv
\* returns h = 0, s = 0 and v = r / 255, and rgbToHsl returns h = 0, s = 0
\* and l = round(100 * r / 255).
GrayHasNoHue ==
  GrayInput =>
    /\ io[1].fn = "rgbToHsv" =>
         /\ io[1].res.h = 0
         /\ io[1].res.s = Zero
         /\ io[1].res.v = Rat(io[1].arg[1], 255)
    /\ io[1].fn = "rgbToHsl" =>
         /\ io[1].res.h = 0
         /\ io[1].res.s = 0
         /\ io[1].res.l = RoundDiv(100 * io[1].arg[1], 255)

\* rgbToHsv(128, 128, 128) has given {h: 0, s: 0, v: 128/255}.
MidGrayConverted ==
  /\ GrayInput
  /\ io[1].fn = "rgbToHsv"
  /\ io[1].arg = <<128, 128, 128>>
  /\ io[1].res = [h |-> 0, s |-> Zero, v |-> <<128, 255>>]

\* C14: for every integer RGB triple in 0..255, rgbToHsl returns integers
\* with 0 <= h < 360 (never 360), 0 <= s <= 100 and 0 <= l <= 100.
HslInRange ==
  \A i \in 1..Len(io) :
    io[i].fn = "rgbToHsl" =>
      /\ io[i].res.h >= 0 /\ io[i].res.h < 360
      /\ io[i].res.s >= 0 /\ io[i].res.s <= 100
      /\ io[i].res.l >= 0 /\ io[i].res.l <= 100

\* The formats of the i-th emission, as a set.
EmittedFormats(i) == {lastEmit[i].formats[j] : j \in 1..Len(lastEmit[i].formats)}

\* C15: every emitted hsv and hsva value has an integer hue with
\* 0 <= h < 360 and integer percentages 0 <= s <= 100 and 0 <= v <= 100.
EmittedHsvInRange ==
  \A i \in Emitted :
    \A k \in EmittedFormats(i) \cap {"hsv", "hsva"} :
      LET hsv == formatResults(lastEmit[i].color, k)
      IN  /\ hsv.h >= 0 /\ hsv.h < 360
          /\ hsv.s >= 0 /\ hsv.s <= 100
          /\ hsv.v >= 0 /\ hsv.v <= 100

\* n/d (d > 0) rounded to the nearest integer, exact halves away from zero.
RoundAway(n, d) ==
  IF n >= 0 THEN (2 * n + d) \div (2 * d) ELSE -((2 * (-n) + d) \div (2 * d))

\* The hue of (r, g, b) in whole degrees when the intermediate h * 60 is
\* rounded with exact halves away from zero, and 360 added when negative.
HueRoundedAway(r, g, b) ==
  LET max  == Max3(r, g, b)
      diff == max - Min3(r, g, b)
      n    == IF max = r THEN 60 * (g - b)
              ELSE IF max = g THEN 60 * (b - r) + 120 * diff
              ELSE 60 * (r - g) + 240 * diff
      h    == IF diff = 0 THEN 0 ELSE RoundAway(n, diff)
  IN  IF h < 0 THEN h + 360 ELSE h

\* C16: the hue rgbToHsv returns is its intermediate value rounded to the
\* nearest integer with exact halves away from zero, also when the
\* intermediate is negative: -0.5 degrees rounds to -1 and gives hue 359.
HueRoundsHalfAwayFromZero ==
  \A i \in 1..Len(io) :
    io[i].fn = "rgbToHsv" =>
      io[i].res.h =
        HueRoundedAway(io[i].arg[1], io[i].arg[2], io[i].arg[3]) * HueUnit

\* C17: for the current size, no distance from the centre is both within
\* the wheel (distance <= wheelRadius) and on the alpha ring
\* (alphaInnerRadius <= distance <= alphaOuterRadius), at any traced pointer
\* position and at any whole distance up to the size; alphaInnerRadius is
\* wheelRadius plus the 15-pixel offset.
HitRegionsDisjoint ==
  /\ \A o \in PointerOffsets :
       LET p == <<centerX + o[1], centerY + o[2]>>
       IN  ~(InWheel(p) /\ OnRing(p))
  /\ \A d \in 0..size :
       ~(/\ DistLe(d * d, wheelRadius)
         /\ DistGe(d * d, alphaInnerRadius)
         /\ DistLe(d * d, alphaOuterRadius))
  /\ alphaInnerRadius[1] * wheelRadius[2] - wheelRadius[1] * alphaInnerRadius[2]
       = ALPHA_INNER_RADIUS_OFFSET * alphaInnerRadius[2] * wheelRadius[2]

\* A pointer-down on the ring, outside the wheel, has started an alpha
\* drag.
RingHitOutsideWheel ==
  /\ pointer # <<>>
  /\ isDragging
  /\ dragTarget = "alpha"
  /\ OnRing(pointer)
  /\ ~InWheel(pointer)

\* C18: when an eyedropper session is cancelled (eyeDropper.open()
\* rejects; Escape or the Cancel button is used in the overlay), the HSVA
\* state is unchanged and onChange is not called.
CancelledSessionQuiet ==
  [][ (NativeReject \/ OverlayCancel \/ OverlayCancelTap)
        => (color' = color /\ lastEmit' = <<>>) ]_vars

\* C19: one eyedropper session applies at most one sample: for each click
\* of the eyedropper button, setColor / onChange is invoked at most once on
\* behalf of that session.
OneSamplePerSession == eye.samples <= 1

\* C20: the strategies come in the order native API, screen capture,
\* colour input: the native API is tried only when present, the screen
\* capture is started only from the button click and only when the native
\* API is absent, the overlay is set up only by the screen capture, and the
\* colour input is opened only by the screen capture throwing.
StrategiesInOrder ==
  [][ /\ (eye'.stage = "native" /\ eye.stage # "native")
          => (eye.stage = "idle" /\ hasEyeDropper)
      /\ (eye'.stage = "capture" /\ eye.stage # "capture")
          => (eye.stage = "idle" /\ ~hasEyeDropper)
      /\ (eye'.stage = "overlay" /\ eye.stage # "overlay")
          => eye.stage = "capture"
      /\ (eye'.stage = "input" /\ eye.stage # "input")
          => (eye.stage = "capture" /\ ~hasEyeDropper) ]_vars

\* The colour input is open: the native API is absent and the screen
\* capture has thrown.
ColourInputOpened ==
  /\ eye.stage = "input"
  /\ ~hasEyeDropper
  /\ eye.samples = 0

\* The initialColor of the documented scenario, {r: 255, g: 100, b: 50,
\* a: 0.8}.
ScenarioColor == [r |-> 255, g |-> 100, b |-> 50, a |-> <<4, 5>>]

\* The state is the one a mount with ScenarioColor creates.
ScenarioMounted == color = initialState(ScenarioColor)

\* C21, as the code has it: mounting with {r: 255, g: 100, b: 50, a: 0.8}
\* creates the state {h: 15, s: 205/255, v: 1, a: 0.8}, and its projection
\* for formats ["hex", "rgba"] is hex "#ff6532" and rgba {r: 255, g: 101,
\* b: 50, a: 0.8}.
ScenarioHueFifteen ==
  ScenarioMounted =>
    /\ color = [h |-> 15 * HueUnit, s |-> Rat(205, 255), v |-> One,
                a |-> <<4, 5>>]
    /\ onChangeArg(color, <<"hex", "rgba">>).keys = {"hex", "rgba"}
    /\ onChangeArg(color, <<"hex", "rgba">>).val["hex"]
         = <<"#", "f", "f", "6", "5", "3", "2">>
    /\ onChangeArg(color, <<"hex", "rgba">>).val["rgba"]
         = [r |-> 255, g |-> 101, b |-> 50, a |-> <<4, 5>>]

\* C21, as stated: the state is {h: 16, s: 205/255, v: 1, a: 0.8}, its hex
\* is "#ff6432" and every rgba channel is within 1 of {r: 255, g: 100,
\* b: 50}, with a = 0.8.
ScenarioHueSixteen ==
  ScenarioMounted =>
    /\ color = [h |-> 16 * HueUnit, s |-> Rat(205, 255), v |-> One,
                a |-> <<4, 5>>]
    /\ onChangeArg(color, <<"hex", "rgba">>).val["hex"]
         = <<"#", "f", "f", "6", "4", "3", "2">>
    /\ LET rgba == onChangeArg(color, <<"hex", "rgba">>).val["rgba"]
       IN  /\ Abs(rgba.r - 255) <= 1
           /\ Abs(rgba.g - 100) <= 1
           /\ Abs(rgba.b - 50) <= 1
           /\ rgba.a = <<4, 5>>

\* The widget has just been mounted with the scenario's colour.
ScenarioJustMounted ==
  /\ ScenarioMounted
  /\ ~selecting
  /\ ~changed
  /\ lastEmit = <<>>
  /\ eye = IdleEye
  /\ ~isDragging

\* The hue and the saturation of the wheel mapping, and the alpha of the
\* ring mapping, at the position p.
HueAt(p) == radToDeg(getAngle(p[1], p[2], centerX, centerY))

SaturationAt(p) ==
  wheelSaturation(getDistance(p[1], p[2], centerX, centerY), wheelRadius)

AlphaAt(p) == ringAlpha(getAngle(p[1], p[2], centerX, centerY))

\* C22: the drag target is fixed at pointer-down and holds until
\* pointer-up.  Only a pointer-down or a pointer-up changes it; every move
\* of a drag that started in the wheel updates hue and saturation from the
\* pointer position, wherever the pointer is, and every move of a drag that
\* started on the ring updates alpha; pointer-up sets isDragging to false
\* and the target to null; isDragging is true exactly when the target is
\* not null.
DragTargetHeld ==
  [][ /\ isDragging' <=> (dragTarget' # "null")
      /\ (dragTarget' # dragTarget) => (PointerUp \/ TracedPointerDown)
      /\ PointerUp => (~isDragging' /\ dragTarget' = "null")
      /\ (TracedPointerMove /\ dragTarget = "color") =>
           /\ Len(lastEmit') = 1
           /\ color' = [color EXCEPT !.h = HueAt(pointer'),
                                     !.s = SaturationAt(pointer')]
      /\ (TracedPointerMove /\ dragTarget = "alpha") =>
           /\ Len(lastEmit') = 1
           /\ color' = [color EXCEPT !.a = AlphaAt(pointer')] ]_vars

\* A drag that started in the wheel has moved over the alpha ring and
\* updated the hue, not alpha.
WheelDragOverRing ==
  /\ pointer # <<>>
  /\ isDragging
  /\ dragTarget = "color"
  /\ OnRing(pointer)
  /\ Len(lastEmit) = 1
  /\ color.h = HueAt(pointer)
  /\ color.a = One

\* C23: each selection operation changes only its own components of the
\* HSVA state.  A wheel update (a pointer-down or a move that selects with
\* the target "color") leaves v and a unchanged; an alpha-ring update
\* (target "alpha") leaves h, s and v unchanged; a brightness change leaves
\* h, s and a unchanged; a preset-ring click leaves a unchanged and sets h,
\* s and v to the conversion of the preset.
SelectionFrames ==
  [][ /\ (selecting' /\ eye' = eye /\ dragTarget' = "color"
            /\ (PointerDown \/ PointerMove)) =>
           (color'.v = color.v /\ color'.a = color.a)
      /\ (selecting' /\ eye' = eye /\ dragTarget' = "alpha"
            /\ (PointerDown \/ PointerMove)) =>
           color' = [color EXCEPT !.a = color'.a]
      /\ (selecting' /\ eye' = eye /\ BrightnessChange) =>
           (color' = [color EXCEPT !.v = color'.v] /\ color'.v \in BrightnessValues)
      /\ (selecting' /\ eye' = eye /\ ColorRingClick) =>
           /\ color'.a = color.a
           /\ \E i \in 1..PaletteLen :
                LET hex == DEFAULT_COLOR_PALETTE[i]
                    hsv == rgbToHsv(parseInt16(hex, 1), parseInt16(hex, 3),
                                    parseInt16(hex, 5))
                IN  color' = [h |-> hsv.h, s |-> hsv.s, v |-> hsv.v, a |-> color.a] ]_vars

\* A preset-ring click has changed the colour of a state whose alpha is
\* not 1, outside any drag and any eyedropper session.
PresetClickedTranslucent ==
  /\ selecting
  /\ changed
  /\ ~isDragging
  /\ eye = IdleEye
  /\ color.a # One
  /\ color.v = One
  /\ \E i \in 1..PaletteLen :
       LET hex == DEFAULT_COLOR_PALETTE[i]
           hsv == rgbToHsv(parseInt16(hex, 1), parseInt16(hex, 3),
                           parseInt16(hex, 5))
       IN  color.h = hsv.h /\ color.s = hsv.s /\ color.v = hsv.v

\* C24: applying an eyedropper sample never changes alpha: the alpha after
\* the sample is applied equals the alpha immediately before, even when
\* alpha was changed between the click on the eyedropper button and the
\* delivery of the sample.
SampleKeepsAlpha ==
  [][ (selecting' /\ (NativeResolve \/ OverlayPick \/ OverlayCancelTap
                        \/ KeysEnter \/ InputChange))
        => color'.a = color.a ]_vars

\* C25: when a screen-capture session has ended by any path (a sample by
\* click, pointerup, touchend or Enter; Escape; the Cancel button), the
\* overlay is out of the document and the session's keydown listener is no
\* longer registered: the listener is registered only while the overlay is
\* in the document.
SessionEndsClean == keydownRegistered => overlayInDocument

\* C26: brightness is reversible.  Taking the bar to 0 keeps h, s and a and
\* emits the RGB 0, 0, 0; taking it back to the earlier v restores the
\* earlier HSVA state exactly, and the colour emitted has the RGB of the
\* earlier state.
BrightnessReversible ==
  [][ /\ DimToZero =>
           /\ color' = [color EXCEPT !.v = Zero]
           /\ Len(lastEmit') = 1
           /\ LET c == lastEmit'[1].color
              IN  hsvToRgb(c.h, c.s, c.v) = [r |-> 0, g |-> 0, b |-> 0]
      /\ RestoreBrightness =>
           /\ color' = io[1]
           /\ Len(lastEmit') = 1
           /\ LET c == lastEmit'[1].color
              IN  hsvToRgb(c.h, c.s, c.v) = hsvToRgb(io[1].h, io[1].s, io[1].v) ]_vars

\* The bar went to 0 and back from a colour with a hue, a saturation and
\* a brightness strictly between 0 and their maxima, and the colour is
\* that colour again.
BrightnessRestored ==
  /\ Len(io) = 2
  /\ color = io[1]
  /\ changed
  /\ color.h # 0
  /\ color.s \notin {Zero, One}
  /\ color.v \notin {Zero, One}

\* C27: the alpha indicator and the alpha mapping are inverse for every
\* alpha in [0, 1], alpha = 0 included: a pointer at the indicator position
\* of an alpha maps back to that alpha.
IndicatorMapsBack ==
  \A i \in 1..Len(io) :
    io[i].fn = "alphaAtIndicator" => io[i].res = io[i].arg

\* C28: for every size the component is used with (the default 300, the
\* 120 and the 180 of the examples) the alpha ring is not empty:
\* alphaInnerRadius <= alphaOuterRadius, so that some pointer-down position
\* passes the ring test of handlePointerDown.
AlphaRingNonEmpty ==
  \A i \in 1..Len(io) :
    io[i].fn = "layout" =>
      RatLe(io[i].res.alphaInnerRadius, io[i].res.alphaOuterRadius)

\* C29: for every integer RGB triple in [0, 255]^3 the hue returned by
\* rgbToHsl equals the hue returned by rgbToHsv for the same triple.
HslHueIsHsvHue ==
  \A i \in 1..Len(io) :
    io[i].fn = "rgbToHsl" =>
      io[i].res.h * HueUnit = rgbToHsv(io[i].arg[1], io[i].arg[2], io[i].arg[3]).h

\* C30: immediately after a preset ring with the colour H is clicked,
\* isColorRingActive(H) is true, and it stays true over every step that
\* leaves h, s and v unchanged (an alpha-only change keeps it active).
ClickedRingActive ==
  [][ \A i \in 1..PaletteLen :
        LET H == DEFAULT_COLOR_PALETTE[i]
        IN  /\ (selecting' /\ eye' = eye /\ handleColorRingClick(H))
                 => isColorRingActive(color', H)
            /\ (color' # color /\ color'.h = color.h /\ color'.s = color.s
                   /\ color'.v = color.v /\ isColorRingActive(color, H))
                 => isColorRingActive(color', H) ]_vars

\* The black ring is active after an alpha drag changed the alpha of the
\* black it selected.
BlackRingActiveAfterAlpha ==
  /\ color = [h |-> 0, s |-> Zero, v |-> Zero, a |-> One]
  /\ isColorRingActive(color, DEFAULT_COLOR_PALETTE[1])
  /\ isDragging
  /\ dragTarget = "alpha"
  /\ selecting
  /\ changed
====
